---- MODULE Spec2Model ----
(***************************************************************************)
(* Model of klaudecode's tool execution core (src/klaudecode/tool.py).     *)
(*                                                                         *)
(* Three kinds of actors take steps:                                       *)
(*   - the dispatcher coroutine (ToolHandler.handle and the two            *)
(*     handle_*_tool_call coroutines it awaits),                           *)
(*   - one asyncio task per ToolInstance (ToolInstance._run_async around   *)
(*     Tool.invoke_async),                                                 *)
(*   - one worker thread per ToolInstance (Tool.invoke, run through        *)
(*     run_in_executor).                                                   *)
(* The dispatcher, the tasks and the SIGINT callback share the event loop  *)
(* thread: each of their steps runs from one suspension point to the next. *)
(* Leaving the `with ThreadPoolExecutor()` block of invoke_async calls     *)
(* shutdown(wait=True), which blocks the event loop thread until the       *)
(* worker thread has finished; worker threads run at any time.             *)
(***************************************************************************)
EXTENDS Integers, Sequences, FiniteSets, TLC

\* ------------------------------------------------------------------ bounds
MaxBatch == 2
MaxInterrupts == 2
\* containers nested around a value of `properties`, the properties dict included
MaxNest == 3
\* containers nested around the value of a shared definition
MaxDefNest == 1

\* ------------------------------------------------------------- the registry
\* Tool.timeout, the default deadline of a tool in seconds.
DefaultTimeout == 300

\* The name no tool is registered under (the spec's scenario name).
UnknownName == "DoesNotExist"

\* ToolHandler.tool_dict: name -> tool definition.  "Edit" and "TodoRead" keep
\* the default parallelable = True; "Serial" stands for a tool declaring
\* parallelable = False.  parses: whether the tool's invoke begins with
\* parse_input_args (EditTool.invoke does, TodoReadTool.invoke never calls it).
tool_dict ==
    [n \in {"Edit", "Serial", "TodoRead"} |->
        [parallelable |-> (n # "Serial"),
         timeout |-> DefaultTimeout,
         parses |-> (n # "TodoRead")]]

\* The tool names the batches of Spec are drawn from.
CallNames == {"Edit", "Serial", UnknownName}

\* The tool names the batches of ArgsSpec are drawn from.
ArgsCallNames == DOMAIN tool_dict \cup {UnknownName}

\* Tool.is_parallelable
is_parallelable(name) == tool_dict[name].parallelable

\* Tool.get_timeout
get_timeout(name) == tool_dict[name].timeout

\* ------------------------------------------------------------------ values
Statuses == {"processing", "success", "error", "canceled"}
Terminal == {"success", "error", "canceled", "timed_out"}

Msg(kind, tool, secs) == [kind |-> kind, tool |-> tool, secs |-> secs]
NoContent == Msg("none", "", 0)
\* what the tool logic writes with set_content
WorkContent == Msg("result", "", 0)
\* what the tool logic reports with set_error_msg
ToolErrorContent == Msg("tool error", "", 0)
\* An error message built from str(e) alone, without the traceback.
TraceContent_message_only == Msg("exception", "", 0)

\* str(e) + traceback.format_exc() of ToolInstance._run_async
TraceContent == Msg("exception and traceback", "", 0)
\* f"Tool '{name}' timed out after {timeout}s"
TimeoutContent(name) == Msg("timed out", name, get_timeout(name))

VARIABLES
    batch,          \* ai_message.tool_calls: the submitted tool names, in order
    show_live,      \* ToolHandler.show_live
    pc,             \* where the dispatcher coroutine is
    group,          \* tool_instances of the active handle_*_tool_call, as batch positions
    seqPos,         \* position in non_parallelable_tool_calls of the running single call
    handler,        \* whether the SIGINT handler of the active group is installed
    interrupted,    \* the `interrupted` local of the active handle_*_tool_call
    nInterrupts,    \* how many times signal_handler has run
    task,           \* ToolInstance._task, per batch position
    worker,         \* the worker thread running Tool.invoke, per batch position
    status,         \* tool_msg.tool_call.status
    content,        \* tool_msg.content
    is_running,     \* ToolInstance._is_running
    is_completed,   \* ToolInstance._is_completed
    cancelled,      \* positions whose task was cancelled (by cancel(), or by asyncio)
    timedOut,       \* positions whose wait_for raised TimeoutError
    late,           \* positions whose worker wrote after the cancel or the timeout
    messages,       \* the conversation: what agent.append_message received
    snapshot,       \* what the last live.update displayed
    doneOrder,      \* the positions in the order their tasks finished
    args_ok,        \* per batch position: tool_call.tool_args parses and validates
    tool,           \* the Tool class whose function-calling schema is exported
    parameters,     \* what a call of tool.get_parameters() produced
    reresolved,     \* what _resolve_schema_refs produced from `parameters`
    openai,         \* what tool.openai_schema() produced
    anthropic,      \* what tool.anthropic_schema() produced
    sources,        \* ConfigManager.sources: the config models, lowest priority first
    merged_config,  \* the merged_config dict of _merge_config_models
    next_source,    \* the position of its loop over self.sources
    final_model,    \* ConfigManager._merged_config_model
    target_file,    \* the file at the path the Edit calls name, as it is on disk
    FILE_CACHE,     \* file_utils.FILE_CACHE: path -> md5 of the content last cached
    backup,         \* the file at `<path>.backup`
    edit,           \* the EditTool.invoke in progress: its position, arguments, locals
    hist,           \* what happened to the file and the cache around the Edit calls
    todo_list,      \* session.todo_list
    todo_calls      \* the TodoWriteTool.invoke calls: position, arguments, locals

vars == <<batch, show_live, pc, group, seqPos, handler, interrupted, nInterrupts,
          task, worker, status, content, is_running, is_completed,
          cancelled, timedOut, late, messages, snapshot, doneOrder, args_ok,
          tool, parameters, reresolved, openai, anthropic,
          sources, merged_config, next_source, final_model,
          target_file, FILE_CACHE, backup, edit, hist, todo_list, todo_calls>>

\* the state of ToolHandler.handle and its executions
handlerVars == <<batch, show_live, pc, group, seqPos, handler, interrupted, nInterrupts,
                 task, worker, status, content, is_running, is_completed,
                 cancelled, timedOut, late, messages, snapshot, doneOrder, args_ok>>

\* the state of a schema export
schemaVars == <<tool, parameters, reresolved, openai, anthropic>>

\* the state of a ConfigManager under construction
configVars == <<sources, merged_config, next_source, final_model>>

\* the state of the Edit tool: the target file, the cache, a call in progress
editVars == <<target_file, FILE_CACHE, backup, edit, hist>>

\* the state of the TodoWrite tool: the session's list, the calls in progress
todoVars == <<todo_list, todo_calls>>

\* the state of the tools' own logic
toolVars == <<editVars, todoVars>>

\* what the steps of handle and of its executions leave alone
otherVars == <<schemaVars, configVars, toolVars>>

Idx == 1 .. Len(batch)

\* ------------------------------------------------------------ the partition
Positions(b) == [i \in 1 .. Len(b) |-> i]

\* A partition that prepends instead of appending: the group comes out reversed.
parallelable_tool_calls_prepend(b) ==
    LET Keep(i) == is_parallelable(b[i])
        kept == SelectSeq(Positions(b), Keep)
    IN  [k \in 1 .. Len(kept) |-> kept[Len(kept) + 1 - k]]

\* ToolHandler.handle: parallelable_tool_calls, as batch positions
parallelable_tool_calls(b) ==
    LET Keep(i) == is_parallelable(b[i]) IN SelectSeq(Positions(b), Keep)

\* A partition that prepends the non-parallelizable calls: reversed order.
non_parallelable_tool_calls_prepend(b) ==
    LET Keep(i) == ~is_parallelable(b[i])
        kept == SelectSeq(Positions(b), Keep)
    IN  [k \in 1 .. Len(kept) |-> kept[Len(kept) + 1 - k]]

\* ToolHandler.handle: non_parallelable_tool_calls, as batch positions
non_parallelable_tool_calls(b) ==
    LET Keep(i) == ~is_parallelable(b[i]) IN SelectSeq(Positions(b), Keep)

Range(s) == {s[k] : k \in 1 .. Len(s)}

\* ------------------------------------------------------------- ToolInstance
TaskDone(i) == task[i] \in {"done", "cancelled"}

\* the event loop thread is inside executor.shutdown(wait=True)
LoopBlocked == \E i \in Idx : task[i] \in {"closing_timeout", "closing_cancel"}

\* An executor left with shutdown(wait=False): nothing waits for the worker.
WorkerFinished_nowait(i) == TRUE

WorkerFinished(i) == worker[i] \in {"returned", "raised", "never_ran"}

\* ToolInstance.is_running
IsRunning(i) == is_running[i] /\ ~is_completed[i]

\* ToolInstance.tool_result, as the conversation keeps it
tool_result(i) == [id |-> i, status |-> status[i], content |-> content[i]]

TypeOK ==
    /\ batch \in Seq(CallNames)
    /\ pc \in {"idle", "live", "gather", "live_cancelled", "gather_cancelled",
              "returned", "aborted", "crashed"}
    /\ status \in [Idx -> Statuses]

\* ------------------------------------------------------ the schema resolver
\* JSON values of a parameter schema: a value holding neither a container nor
\* a reference (a string, a number, {"type": "string"}, {}), a dict with a
\* '$ref' key, a dict without one, a list.  Containers hold one value.
Leaf == [t |-> "leaf"]
Ref(prefix, name) == [t |-> "ref", prefix |-> prefix, name |-> name]
Dict(kid) == [t |-> "dict", kid |-> kid]
List(kid) == [t |-> "list", kid |-> kid]

\* the names shared definitions go by
DefNames == {"A", "B"}

\* '$ref' values: into '$defs' (pydantic's form), or anywhere else
RefPaths == {Ref("#/$defs/", n) : n \in DefNames} \cup {Ref("#/definitions/", "A")}

RECURSIVE Nodes(_)
Nodes(d) ==
    IF d = 0
       THEN {Leaf} \cup RefPaths
       ELSE Nodes(d - 1) \cup {Dict(k) : k \in Nodes(d - 1)}
                         \cup {List(k) : k \in Nodes(d - 1)}

\* the '$defs' maps: any subset of the names defined
DefsMaps == UNION {[D -> Nodes(MaxDefNest)] : D \in SUBSET DefNames}

\* schema.get('$defs', {}) of a schema without '$defs'
NoDefs == [n \in {} |-> Leaf]

\* Input.model_json_schema(): properties, required, '$defs'
InputSchemas ==
    [type : {"object"},
     properties : {Dict(k) : k \in Nodes(MaxNest - 1)},
     required : {<<>>, <<"p">>},
     defs : DefsMaps]

\* The interpreter's recursion limit, as calls of resolve_refs: more than the
\* deepest chain a schema without a reference cycle needs.
RecursionLimit == (MaxNest + 1) + Cardinality(DefNames) * (MaxDefNest + 1) + 1

\* the exception a call that exceeds the recursion limit raises
RecursionError == [type |-> "RecursionError"]

\* A resolver looking for the references of older schema drafts.
ref_is_resolvable_definitions(ref, defs_map) ==
    ref.prefix = "#/definitions/" /\ ref.name \in DOMAIN defs_map

\* `ref_path.startswith('#/$defs/')` and `def_name in defs_map`
ref_is_resolvable(ref, defs_map) ==
    ref.prefix = "#/$defs/" /\ ref.name \in DOMAIN defs_map

\* Tool._resolve_schema_refs.resolve_refs: the resolved value, or
\* RecursionError when the calls nest deeper than `fuel`.
RECURSIVE resolve_refs(_, _, _)
resolve_refs(obj, defs_map, fuel) ==
    IF fuel = 0 THEN RecursionError
    ELSE IF obj.t = "ref"
       THEN IF ref_is_resolvable(obj, defs_map)
               THEN resolve_refs(defs_map[obj.name], defs_map, fuel - 1)
               ELSE obj
    ELSE IF obj.t \in {"dict", "list"}
       THEN LET r == resolve_refs(obj.kid, defs_map, fuel - 1) IN
            IF r = RecursionError THEN RecursionError ELSE [obj EXCEPT !.kid = r]
    ELSE obj

\* A pass that inlines one level of definitions without resolving them.
RECURSIVE inline_once(_, _)
inline_once(obj, defs_map) ==
    IF obj.t = "ref"
       THEN IF obj.prefix = "#/$defs/" /\ obj.name \in DOMAIN defs_map
               THEN defs_map[obj.name] ELSE obj
    ELSE IF obj.t \in {"dict", "list"}
       THEN [obj EXCEPT !.kid = inline_once(obj.kid, defs_map)]
    ELSE obj

\* A resolver that rewrites the schema it was given, one level of references
\* per pass, and hands it back with its '$defs'.
resolve_schema_refs_in_place(schema) ==
    [type |-> "object",
     properties |-> inline_once(schema.properties, schema.defs),
     required |-> schema.required,
     defs |-> schema.defs]

\* Tool._resolve_schema_refs: {type, properties, required}, without '$defs'
resolve_schema_refs(schema) ==
    LET props == resolve_refs(schema.properties, schema.defs, RecursionLimit) IN
    IF props = RecursionError
       THEN RecursionError
       ELSE [type |-> "object",
             properties |-> props,
             required |-> schema.required,
             defs |-> NoDefs]

\* The Tool classes: one declaring a pydantic Input model, one carrying a
\* hand-written `parameters` attribute, one with neither.
Tools ==
    [name : {"Edit"}, desc : {"EDIT_TOOL_DESC"}, kind : {"Input"}, schema : InputSchemas]
    \cup [name : {"Custom"}, desc : {""}, kind : {"parameters"},
          schema : [type : {"object"}, properties : {Dict(k) : k \in Nodes(0)},
                    required : {<<>>}, defs : {NoDefs}]]
    \cup [name : {"Bare"}, desc : {""}, kind : {"none"},
          schema : {[type |-> "object", properties |-> Leaf,
                     required |-> <<>>, defs |-> NoDefs]}]

\* Tool.get_parameters
get_parameters(cls) ==
    IF cls.kind = "parameters" THEN cls.schema
    ELSE IF cls.kind = "Input" THEN resolve_schema_refs(cls.schema)
    ELSE [type |-> "object", properties |-> Leaf, required |-> <<>>, defs |-> NoDefs]

\* An export that carries Input.model_json_schema() as pydantic produced it.
openai_schema_unresolved(cls) ==
    [type |-> "function",
     function |-> [name |-> cls.name, description |-> cls.desc,
                   parameters |-> cls.schema]]

\* Tool.openai_schema (get_parameters may raise)
openai_schema(cls) ==
    IF get_parameters(cls) = RecursionError THEN RecursionError
    ELSE [type |-> "function",
          function |-> [name |-> cls.name, description |-> cls.desc,
                        parameters |-> get_parameters(cls)]]

\* Tool.anthropic_schema (get_parameters may raise)
anthropic_schema(cls) ==
    IF get_parameters(cls) = RecursionError THEN RecursionError
    ELSE [name |-> cls.name, description |-> cls.desc,
          input_schema |-> get_parameters(cls)]

\* a value not produced yet
NotComputed == [type |-> "not computed"]

\* no schema is being exported
SchemaIdle ==
    /\ tool = [name |-> "Bare", desc |-> "", kind |-> "none",
               schema |-> [type |-> "object", properties |-> Leaf,
                           required |-> <<>>, defs |-> NoDefs]]
    /\ parameters = NotComputed
    /\ reresolved = NotComputed
    /\ openai = NotComputed
    /\ anthropic = NotComputed

\* -------------------------------------------------------- the configuration
\* Three of the fields of ConfigModel: a string, a bool and an int.
ConfigKeys == {"api_key", "model_azure", "max_tokens"}

\* Python's None, among configuration values written as text
None == "None"

\* The values a source can hold for a key, None included.
ConfigValues ==
    [k \in ConfigKeys |->
        IF k = "api_key" THEN {None, "", "sk-key"}
        ELSE IF k = "model_azure" THEN {None, "False", "True"}
        ELSE {None, "0", "4096"}]

\* keyword data handed to ConfigModel(...): every key, some of them None
ConfigData == {d \in [ConfigKeys -> UNION {ConfigValues[k] : k \in ConfigKeys}] :
                  \A k \in ConfigKeys : d[k] \in ConfigValues[k]}

\* the environment: each variable unset (None) or a string
Environments ==
    {e \in [ConfigKeys -> {None, "", "sk-env", "yes", "off", "0", "4096", "many"}] :
        /\ e["api_key"] \in {None, "", "sk-env"}
        /\ e["model_azure"] \in {None, "yes", "off"}
        /\ e["max_tokens"] \in {None, "0", "many"}}

\* ConfigValue(value, source)
ConfigValue(value, source) == [value |-> value, source |-> source]

\* ConfigModel.__init__: a ConfigValue for every value that is not None; the
\* other fields keep their default None (here: are not in the domain).
ConfigModel(source, data) ==
    [k \in {k \in ConfigKeys : data[k] # None} |-> ConfigValue(data[k], source)]

\* DefaultConfigSource: api_key=None, DEFAULT_MODEL_AZURE, DEFAULT_MAX_TOKENS
DefaultConfigSource ==
    ConfigModel("default",
        [k \in ConfigKeys |->
            IF k = "api_key" THEN None
            ELSE IF k = "model_azure" THEN "False" ELSE "8196"])

\* GlobalConfigSource._load_config: the fields of ~/.klaude/config.json (a
\* missing or unreadable file gives every field None)
GlobalConfigSource(file) == ConfigModel("config", file)

\* EnvConfigSource._load_env_config: bools from the words true/1/yes/on,
\* ints through int() with None on a ValueError, strings as they are
EnvConfigSource(env) ==
    ConfigModel("env",
        [k \in ConfigKeys |->
            IF env[k] = None THEN None
            ELSE IF k = "model_azure"
               THEN (IF env[k] \in {"true", "1", "yes", "on"} THEN "True" ELSE "False")
            ELSE IF k = "max_tokens"
               THEN (IF env[k] \in {"0", "4096"} THEN env[k] ELSE None)
            ELSE env[k]])

\* ArgConfigSource: the command line's options, None where not given
ArgConfigSource(args) == ConfigModel("cli", args)

\* ConfigManager.setup: the sources, lowest priority first
setup(file, env, args) ==
    <<DefaultConfigSource, GlobalConfigSource(file), EnvConfigSource(env),
      ArgConfigSource(args)>>

\* A truth value taken from the value itself: False, 0 and '' count as absent.
ConfigValue_bool_truthy(cv) == cv.value \notin {None, "", "False", "0"}

\* ConfigValue.__bool__
ConfigValue_bool(cv) == cv.value # None

\* `config_value and config_value.value is not None` for
\* config_value = getattr(source.config_model, field_name, None)
provides(config_model, field_name) ==
    /\ field_name \in DOMAIN config_model
    /\ ConfigValue_bool(config_model[field_name])
    /\ config_model[field_name].value # None

\* one round of the loop of _merge_config_models over self.sources
merge_source(merged, config_model) ==
    [k \in DOMAIN merged \cup {f \in ConfigKeys : provides(config_model, f)} |->
        IF provides(config_model, k) THEN config_model[k] ELSE merged[k]]

\* an empty dict
EmptyDict == [k \in {} |-> None]

\* a ConfigModel not built yet
NotBuilt == [built |-> FALSE]

\* no ConfigManager is being constructed
ConfigIdle ==
    /\ sources = <<>>
    /\ merged_config = EmptyDict
    /\ next_source = 1
    /\ final_model = NotBuilt

\* ------------------------------------------------------------ the Edit tool
\* the longest file text, the Edit calls and the modifications by others
MaxFileLen == 2
MaxEdits == 2
MaxExternal == 1

\* The characters of a file: a letter, a carriage return, a line feed.
Chars == {"a", "CR", "LF"}

RECURSIVE Texts(_)
Texts(n) ==
    IF n = 0 THEN {<<>>}
    ELSE Texts(n - 1) \cup {Append(t, c) : t \in Texts(n - 1), c \in Chars}

\* a file on disk with the given characters, and no file
File(bytes) == [exists |-> TRUE, bytes |-> bytes]
NoFile == [exists |-> FALSE, bytes |-> <<>>]

\* the one path the modelled Edit calls name
Path == "file_path"

\* hashlib.md5(text.encode()).hexdigest(): equal for equal contents only
md5(text) == [md5 |-> text]

\* os.linesep of a POSIX system
os_linesep == <<"LF">>

\* What open(path, 'w', encoding=...) puts on disk for a str: text mode with
\* the default newline writes os.linesep for every '\n' and the rest as it is.
RECURSIVE write_text(_)
write_text(text) ==
    IF text = <<>> THEN <<>>
    ELSE (IF Head(text) = "LF" THEN os_linesep ELSE <<Head(text)>>)
            \o write_text(Tail(text))

\* What open(path, 'r', encoding=...).read() returns: text mode with the
\* default newline turns '\r\n' and a lone '\r' into '\n'.
RECURSIVE read_text(_)
read_text(bytes) ==
    IF bytes = <<>> THEN <<>>
    ELSE IF Head(bytes) = "CR"
       THEN <<"LF">> \o read_text(IF Len(bytes) > 1 /\ bytes[2] = "LF"
                                     THEN Tail(Tail(bytes)) ELSE Tail(bytes))
    ELSE <<Head(bytes)>> \o read_text(Tail(bytes))

FILE_NOT_READ_ERROR == "File has not been read yet. Read it first before writing to it."
FILE_MODIFIED_ERROR == "File has been modified externally. Either by user or a linter. Read it first before writing to it."

\* validate_file_exists: '' when the file is there
validate_file_exists(f) == IF f.exists THEN "" ELSE "File does not exist"

\* validate_file_cache: '' when the path is cached and the hash of the file
\* as read now equals the cached hash
validate_file_cache(f, cache) ==
    IF Path \notin DOMAIN cache THEN FILE_NOT_READ_ERROR
    ELSE IF md5(read_text(f.bytes)) # cache[Path] THEN FILE_MODIFIED_ERROR
    ELSE ""

\* cache_file_content
cache_file_content(cache, text) ==
    [k \in DOMAIN cache \cup {Path} |-> IF k = Path THEN md5(text) ELSE cache[k]]

StartsWith(text, s) == Len(s) <= Len(text) /\ SubSeq(text, 1, Len(s)) = s

\* str.count: the non-overlapping occurrences
RECURSIVE count_occurrences(_, _)
count_occurrences(text, search_string) ==
    IF search_string = <<>> THEN Len(text) + 1
    ELSE IF text = <<>> THEN 0
    ELSE IF StartsWith(text, search_string)
       THEN 1 + count_occurrences(SubSeq(text, Len(search_string) + 1, Len(text)),
                                  search_string)
    ELSE count_occurrences(Tail(text), search_string)

\* str.replace(old, new, n) for a non-empty old
RECURSIVE str_replace(_, _, _, _)
str_replace(text, old, new, n) ==
    IF text = <<>> \/ n = 0 THEN text
    ELSE IF StartsWith(text, old)
       THEN new \o str_replace(SubSeq(text, Len(old) + 1, Len(text)), old, new, n - 1)
    ELSE <<Head(text)>> \o str_replace(Tail(text), old, new, n)

\* replace_string_in_content: every occurrence, or the first one
replace_string_in_content(text, old_string, new_string, replace_all) ==
    str_replace(text, old_string, new_string,
                IF replace_all THEN Len(text) ELSE 1)

\* The checks of EditTool.invoke before its try block, in their order: the
\* error message of the first that fails, '' when none does.
validate(f, cache, old_string, new_string) ==
    IF validate_file_exists(f) # "" THEN validate_file_exists(f)
    ELSE IF validate_file_cache(f, cache) # "" THEN validate_file_cache(f, cache)
    ELSE IF old_string = new_string THEN "old_string and new_string cannot be the same"
    ELSE IF old_string = <<>> THEN "old_string cannot be empty"
    ELSE ""

\* The checks on the text read inside the try block.
check_occurrences(text, old_string, replace_all) ==
    IF count_occurrences(text, old_string) = 0
       THEN "String to replace not found in file."
    ELSE IF ~replace_all /\ count_occurrences(text, old_string) > 1
       THEN "Found matches of the string to replace, but replace_all is false."
    ELSE ""

\* A restore that leaves the file as the failed write left it.
restore_backup_skipped(f, b, moved) == f

\* restore_backup: shutil.move(backup_path, file_path), which may fail
restore_backup(f, b, moved) == IF moved THEN b ELSE f

\* what the old_string and new_string of an Edit call are drawn from
OldStrings == {<<>>, <<"a">>}
NewStrings == {<<>>, <<"a">>, <<"CR">>}

\* what somebody else leaves in the file
ExternalTexts == {<<"a", "a">>, <<"LF">>}

\* no Edit call has run
NoEdit ==
    [pc |-> "idle", old_string |-> <<>>, new_string |-> <<>>, replace_all |-> FALSE,
     content |-> <<>>, result |-> "none"]

\* calls, externals: the Edit calls begun and the modifications by others so
\* far; start_file, start_cache: the file and the cache when the last call
\* began; disturbed: someone else has modified the file since then;
\* restore_failed: the last call could not move its backup back; after: what
\* a read of the file returned right after the last successful write;
\* stale: someone else has modified the file since that write.
NoHist ==
    [calls |-> 0, externals |-> 0, start_file |-> NoFile, start_cache |-> EmptyDict,
     disturbed |-> FALSE, stale |-> FALSE, restore_failed |-> FALSE, after |-> <<>>]

\* no Edit call is modelled
EditIdle ==
    /\ target_file = NoFile
    /\ FILE_CACHE = EmptyDict
    /\ backup = NoFile
    /\ edit = NoEdit
    /\ hist = NoHist

\* ------------------------------------------------------- the TodoWrite tool
\* the longest todo list
MaxTodos == 2

TodoIds == {"x", "y"}
TodoStatuses == {"pending", "in_progress", "completed"}

\* TodoList values: at most MaxTodos todos, no id twice
TodoLists ==
    {l \in UNION {[1 .. n -> [id : TodoIds, status : TodoStatuses]] : n \in 0 .. MaxTodos} :
        \A i, j \in DOMAIN l : i # j => l[i].id # l[j].id}

\* `{todo.id: todo for todo in old_todo_list.root}`
old_todo_dict(old) ==
    [k \in {old[i].id : i \in DOMAIN old} |->
        old[CHOOSE i \in DOMAIN old :
                /\ old[i].id = k
                /\ \A j \in DOMAIN old : old[j].id = k => j <= i]]

\* A test that reports every todo submitted as completed.
is_new_completed_any(dict, todo) == todo.status = "completed"

\* the test of the loop over the submitted todos
is_new_completed(dict, todo) ==
    /\ todo.id \in DOMAIN dict
    /\ dict[todo.id].status # "completed"
    /\ todo.status = "completed"

\* the new_completed_todos list TodoWriteTool.invoke builds
new_completed_todos(old, submitted) ==
    LET Keep(t) == is_new_completed(old_todo_dict(old), t)
        kept == SelectSeq(submitted, Keep)
    IN  [i \in 1 .. Len(kept) |-> kept[i].id]

\* the TodoWrite calls of one parallel group
TodoCalls == {1, 2}

\* a TodoWrite call that has not begun
NoTodoCall ==
    [pc |-> "new", todo_list |-> <<>>, old_todo_list |-> <<>>,
     new_completed_todos |-> <<>>, replaced |-> <<>>]

\* no TodoWrite call is modelled
TodoIdle ==
    /\ todo_list = <<>>
    /\ todo_calls = [c \in TodoCalls |-> NoTodoCall]

\* neither tool is modelled
ToolsIdle == EditIdle /\ TodoIdle

\* ToolHandler.__init__ and the state of a batch before handle runs on it.
Constructed ==
    /\ pc = "idle"
    /\ group = <<>>
    /\ seqPos = 0
    /\ handler = FALSE
    /\ interrupted = FALSE
    /\ nInterrupts = 0
    /\ task = [i \in Idx |-> "none"]
    /\ worker = [i \in Idx |-> "none"]
    /\ status = [i \in Idx |-> "processing"]
    /\ content = [i \in Idx |-> NoContent]
    /\ is_running = [i \in Idx |-> FALSE]
    /\ is_completed = [i \in Idx |-> FALSE]
    /\ cancelled = {}
    /\ timedOut = {}
    /\ late = {}
    /\ messages = <<>>
    /\ snapshot = <<>>
    /\ doneOrder = <<>>

\* Batches of calls whose arguments are valid for their tool.
Init ==
    /\ batch \in UNION {[1 .. n -> CallNames] : n \in 0 .. MaxBatch}
    /\ show_live \in BOOLEAN
    /\ args_ok = [i \in Idx |-> TRUE]
    /\ Constructed
    /\ SchemaIdle
    /\ ConfigIdle
    /\ ToolsIdle

\* Batches over every registered tool, with valid and invalid arguments.
ArgsInit ==
    /\ batch \in UNION {[1 .. n -> ArgsCallNames] : n \in 0 .. MaxBatch}
    /\ show_live \in BOOLEAN
    /\ args_ok \in [Idx -> BOOLEAN]
    /\ Constructed
    /\ SchemaIdle
    /\ ConfigIdle
    /\ ToolsIdle

\* ---------------------------------------------------------- the dispatcher
Results(g) == [k \in 1 .. Len(g) |-> tool_result(g[k])]

\* The head of handle_parallel_tool_call / handle_single_tool_call, up to its
\* first suspension: create the instances, start their tasks (start_async),
\* install the SIGINT handler (which may be refused), enter the live loop.
StartGroup(g, k) ==
    /\ group' = g
    /\ seqPos' = k
    /\ task' = [i \in Idx |-> IF i \in Range(g) THEN "pending" ELSE task[i]]
    /\ is_running' = [i \in Idx |-> IF i \in Range(g) THEN TRUE ELSE is_running[i]]
    /\ interrupted' = FALSE
    /\ \E added \in BOOLEAN : handler' = added
    /\ IF show_live
          THEN /\ pc' = "live"
               /\ snapshot' = [j \in 1 .. Len(g) |->
                                 [id |-> g[j], status |-> status[g[j]],
                                  content |-> content[g[j]]]]
          ELSE /\ pc' = "gather"
               /\ UNCHANGED snapshot

\* A finally block that leaves the SIGINT handler installed.
remove_signal_handler_skipped(h) == h

\* `if signal_handler_added: loop.remove_signal_handler(signal.SIGINT)` of the
\* finally blocks: whether a handler is installed afterwards.
remove_signal_handler(h) == FALSE

\* The loop of handle over non_parallelable_tool_calls: start the k-th single
\* call, or return when there is none left.
Continue(k) ==
    LET rest == non_parallelable_tool_calls(batch) IN
    IF k <= Len(rest)
       THEN StartGroup(<<rest[k]>>, k)
       ELSE /\ pc' = "returned"
            /\ handler' = remove_signal_handler(handler)
            /\ UNCHANGED <<group, seqPos, task, is_running, interrupted, snapshot>>

\* handle, on a batch naming a tool that is not registered: the `pass` branch
\* falls through to self.tool_dict[tool_call.tool_name], a KeyError.
HandleUnknown ==
    /\ pc = "idle"
    /\ \E i \in Idx : batch[i] \notin DOMAIN tool_dict
    /\ pc' = "crashed"
    /\ UNCHANGED <<otherVars, args_ok, batch, show_live, group, seqPos, handler, interrupted, nInterrupts,
                   task, worker, status, content, is_running, is_completed,
                   cancelled, timedOut, late, messages, snapshot, doneOrder>>

\* handle, on an empty batch: return at once.
HandleEmpty ==
    /\ pc = "idle"
    /\ Len(batch) = 0
    /\ pc' = "returned"
    /\ UNCHANGED <<otherVars, args_ok, batch, show_live, group, seqPos, handler, interrupted, nInterrupts,
                   task, worker, status, content, is_running, is_completed,
                   cancelled, timedOut, late, messages, snapshot, doneOrder>>

\* handle, on a batch of registered tools: partition, then the parallel group
\* (handle_parallel_tool_call returns at once on an empty group).
Handle ==
    /\ pc = "idle"
    /\ Len(batch) > 0
    /\ \A i \in Idx : batch[i] \in DOMAIN tool_dict
    /\ IF parallelable_tool_calls(batch) = <<>>
          THEN Continue(1)
          ELSE StartGroup(parallelable_tool_calls(batch), 0)
    /\ UNCHANGED <<otherVars, args_ok, batch, show_live, nInterrupts, worker, status, content,
                   is_completed, cancelled, timedOut, late, messages, doneOrder>>

\* A display that lists only the executions still running.
live_columns_running_only(g) ==
    LET Keep(i) == IsRunning(i) IN Results(SelectSeq(g, Keep))

\* `[ti.tool_result() for ti in tool_instances]` handed to live.update
live_columns(g) == Results(g)

\* The live loop: `while any(ti.is_running()) and not interrupted`.
LiveUpdate ==
    /\ pc = "live"
    /\ ~LoopBlocked
    /\ (\E i \in Range(group) : IsRunning(i)) /\ ~interrupted
    /\ snapshot' = live_columns(group)
    /\ UNCHANGED <<otherVars, args_ok, batch, show_live, pc, group, seqPos, handler, interrupted,
                   nInterrupts, task, worker, status, content, is_running,
                   is_completed, cancelled, timedOut, late, messages, doneOrder>>

\* The loop ends: the last live.update, then the dispatcher awaits the tasks.
LiveExit ==
    /\ pc = "live"
    /\ ~LoopBlocked
    /\ ~((\E i \in Range(group) : IsRunning(i)) /\ ~interrupted)
    /\ snapshot' = live_columns(group)
    /\ pc' = "gather"
    /\ UNCHANGED <<otherVars, args_ok, batch, show_live, group, seqPos, handler, interrupted,
                   nInterrupts, task, worker, status, content, is_running,
                   is_completed, cancelled, timedOut, late, messages, doneOrder>>

\* A finally block that forgets to re-raise after an interrupt.
raise_if_interrupted_forgotten(intr) == FALSE

\* `if interrupted: raise asyncio.CancelledError` of the finally blocks
raise_if_interrupted(intr) == intr

\* `await task` of handle_single_tool_call re-raises the task's CancelledError;
\* gather(..., return_exceptions=True) of the parallel group does not.
await_raises == seqPos > 0 /\ \E i \in Range(group) : task[i] = "cancelled"

\* A dispatcher that does not await its tasks before the finally block.
gather_done_skipped(g) == TRUE

\* `await asyncio.gather(*tasks, return_exceptions=True)` / `await task`:
\* the dispatcher resumes once every task of the group is done.
gather_done(g) == \A i \in Range(g) : TaskDone(i)

\* What the finally blocks pass to agent.append_message
appended_results(g) == Results(g)

\* The finally block of handle_*_tool_call, run once every task of the group
\* is done: remove the handler, append the results, raise if interrupted;
\* otherwise handle goes on with the next single call.
GroupFinally ==
    /\ pc = "gather"
    /\ ~LoopBlocked
    /\ gather_done(group)
    /\ messages' = messages \o appended_results(group)
    /\ IF raise_if_interrupted(interrupted) \/ await_raises
          THEN /\ pc' = "aborted"
               /\ handler' = remove_signal_handler(handler)
               /\ UNCHANGED <<group, seqPos, task, is_running, interrupted, snapshot>>
          ELSE Continue(seqPos + 1)
    /\ UNCHANGED <<otherVars, args_ok, batch, show_live, nInterrupts, worker, status, content,
                   is_completed, cancelled, timedOut, late, doneOrder>>

\* A cancel() without its guard: it marks whatever execution it is called on.
cancel_hits_unguarded(i) == TRUE

\* ToolInstance.cancel acts only on a task that exists and is not done.
cancel_hits(i) == task[i] # "none" /\ ~TaskDone(i)

\* signal_handler, run by the event loop on SIGINT.  The first steps of the
\* group's tasks were queued before the handler was installed, and a
\* cancelled task's wake-up is queued by cancel() itself: both run first.
Interrupt ==
    /\ handler
    /\ ~LoopBlocked
    /\ nInterrupts < MaxInterrupts
    /\ \A i \in Range(group) : task[i] # "pending"
    /\ \A i \in Range(group) : ~(i \in cancelled /\ task[i] = "waiting")
    /\ interrupted' = TRUE
    /\ nInterrupts' = nInterrupts + 1
    /\ LET hit == {i \in Range(group) : cancel_hits(i)} IN
          /\ cancelled' = cancelled \cup hit
          /\ is_completed' = [i \in Idx |-> IF i \in hit THEN TRUE ELSE is_completed[i]]
          /\ status' = [i \in Idx |-> IF i \in hit THEN "canceled" ELSE status[i]]
    /\ UNCHANGED <<otherVars, args_ok, batch, show_live, pc, group, seqPos, handler, task, worker,
                   content, is_running, timedOut, late, messages, snapshot, doneOrder>>

\* --------------------------------------------------------------- the tasks
\* ToolMessage.set_error_msg marks the result as failed.
error_status == "error"

\* future.cancel() on the executor's future: it takes effect only while the
\* work item has not been picked up by its thread.
future_cancel(w) == IF w = "queued" THEN "never_ran" ELSE w

\* A completion that marks the result successful whatever the tool logic set.
status_on_completion_always(st) == "success"

\* `if self.tool_msg.tool_call.status == 'processing': ... = 'success'`
status_on_completion(st) == IF st = "processing" THEN "success" ELSE st

\* The first step of _run_async: invoke_async hands Tool.invoke to a fresh
\* ThreadPoolExecutor and suspends in asyncio.wait_for.
TaskStart(i) ==
    /\ task[i] = "pending"
    /\ ~LoopBlocked
    /\ task' = [task EXCEPT ![i] = "waiting"]
    /\ worker' = [worker EXCEPT ![i] = "queued"]
    /\ UNCHANGED <<otherVars, args_ok, batch, show_live, pc, group, seqPos, handler, interrupted,
                   nInterrupts, status, content, is_running, is_completed,
                   cancelled, timedOut, late, messages, snapshot, doneOrder>>

\* wait_for returns: the work has returned before the deadline.
TaskReturn(i) ==
    /\ task[i] = "waiting"
    /\ ~LoopBlocked
    /\ i \notin cancelled
    /\ worker[i] = "returned"
    /\ is_completed' = [is_completed EXCEPT ![i] = TRUE]
    /\ status' = [status EXCEPT ![i] = status_on_completion(status[i])]
    /\ is_running' = [is_running EXCEPT ![i] = FALSE]
    /\ doneOrder' = Append(doneOrder, i)
    /\ task' = [task EXCEPT ![i] = "done"]
    /\ UNCHANGED <<otherVars, args_ok, batch, show_live, pc, group, seqPos, handler, interrupted,
                   nInterrupts, worker, content, cancelled, timedOut, late,
                   messages, snapshot>>

\* wait_for re-raises the exception of the tool logic: `except Exception`.
TaskRaise(i) ==
    /\ task[i] = "waiting"
    /\ ~LoopBlocked
    /\ i \notin cancelled
    /\ worker[i] = "raised"
    /\ status' = [status EXCEPT ![i] = error_status]
    /\ content' = [content EXCEPT ![i] = TraceContent]
    /\ is_completed' = [is_completed EXCEPT ![i] = TRUE]
    /\ is_running' = [is_running EXCEPT ![i] = FALSE]
    /\ doneOrder' = Append(doneOrder, i)
    /\ task' = [task EXCEPT ![i] = "done"]
    /\ UNCHANGED <<otherVars, args_ok, batch, show_live, pc, group, seqPos, handler, interrupted,
                   nInterrupts, worker, cancelled, timedOut, late,
                   messages, snapshot>>

\* The status the timeout branch of invoke_async writes.
timeout_status == "canceled"

\* wait_for raises TimeoutError: the deadline elapsed before the event loop saw
\* the work complete.  `except asyncio.TimeoutError`, then the `with` block is
\* left: shutdown(wait=True) blocks the loop until the worker has finished.
TaskTimeout(i) ==
    /\ task[i] = "waiting"
    /\ ~LoopBlocked
    /\ i \notin cancelled
    /\ worker' = [worker EXCEPT ![i] = future_cancel(worker[i])]
    /\ status' = [status EXCEPT ![i] = timeout_status]
    /\ content' = [content EXCEPT ![i] = TimeoutContent(batch[i])]
    /\ timedOut' = timedOut \cup {i}
    /\ task' = [task EXCEPT ![i] = "closing_timeout"]
    /\ UNCHANGED <<otherVars, args_ok, batch, show_live, pc, group, seqPos, handler, interrupted,
                   nInterrupts, is_running, is_completed, cancelled, late,
                   messages, snapshot, doneOrder>>

\* The executor has shut down after a timeout: invoke_async returns normally
\* and _run_async completes.
TaskTimeoutExit(i) ==
    /\ task[i] = "closing_timeout"
    /\ WorkerFinished(i)
    /\ is_completed' = [is_completed EXCEPT ![i] = TRUE]
    /\ status' = [status EXCEPT ![i] = status_on_completion(status[i])]
    /\ is_running' = [is_running EXCEPT ![i] = FALSE]
    /\ doneOrder' = Append(doneOrder, i)
    /\ task' = [task EXCEPT ![i] = "done"]
    /\ UNCHANGED <<otherVars, args_ok, batch, show_live, pc, group, seqPos, handler, interrupted,
                   nInterrupts, worker, content, cancelled, timedOut, late,
                   messages, snapshot>>

\* The CancelledError of cancel() reaches the task in wait_for:
\* `except asyncio.CancelledError: future.cancel(); raise`, then the `with`
\* block is left and blocks the loop until the worker has finished.
TaskCancel(i) ==
    /\ task[i] = "waiting"
    /\ ~LoopBlocked
    /\ i \in cancelled
    /\ worker' = [worker EXCEPT ![i] = future_cancel(worker[i])]
    /\ task' = [task EXCEPT ![i] = "closing_cancel"]
    /\ UNCHANGED <<otherVars, args_ok, batch, show_live, pc, group, seqPos, handler, interrupted,
                   nInterrupts, status, content, is_running, is_completed,
                   cancelled, timedOut, late, messages, snapshot, doneOrder>>

\* The executor has shut down after a cancellation: _run_async's
\* `except asyncio.CancelledError` and `finally`.
TaskCancelExit(i) ==
    /\ task[i] = "closing_cancel"
    /\ WorkerFinished(i)
    /\ is_completed' = [is_completed EXCEPT ![i] = TRUE]
    /\ is_running' = [is_running EXCEPT ![i] = FALSE]
    /\ doneOrder' = Append(doneOrder, i)
    /\ task' = [task EXCEPT ![i] = "cancelled"]
    /\ UNCHANGED <<otherVars, args_ok, batch, show_live, pc, group, seqPos, handler, interrupted,
                   nInterrupts, worker, status, content, cancelled, timedOut,
                   late, messages, snapshot>>

\* ------------------------------------------------------- the worker threads
\* The worker thread picks the work item up and enters Tool.invoke.
WorkerBegin(i) ==
    /\ worker[i] = "queued"
    /\ worker' = [worker EXCEPT ![i] = "running"]
    /\ UNCHANGED <<otherVars, args_ok, batch, show_live, pc, group, seqPos, handler, interrupted,
                   nInterrupts, task, status, content, is_running, is_completed,
                   cancelled, timedOut, late, messages, snapshot, doneOrder>>

\* A write of the tool logic is late when the execution was already cancelled
\* or timed out.
NowLate(i) == IF i \in cancelled \cup timedOut THEN late \cup {i} ELSE late

\* Whether Tool.invoke gets past its first statement: a tool that calls
\* parse_input_args raises there on arguments that are not valid JSON or do
\* not validate against its Input model; a tool that never calls it goes on.
parse_input_args_passes(name, ok) == ~tool_dict[name].parses \/ ok

\* The tool logic reports its result: instance.tool_result().set_content(...)
WorkerSetContent(i) ==
    /\ worker[i] = "running"
    /\ parse_input_args_passes(batch[i], args_ok[i])
    /\ worker' = [worker EXCEPT ![i] = "wrote"]
    /\ content' = [content EXCEPT ![i] = WorkContent]
    /\ late' = NowLate(i)
    /\ UNCHANGED <<otherVars, args_ok, batch, show_live, pc, group, seqPos, handler, interrupted,
                   nInterrupts, task, status, is_running, is_completed,
                   cancelled, timedOut, messages, snapshot, doneOrder>>

\* The tool logic reports a failure: instance.tool_result().set_error_msg(...)
WorkerSetError(i) ==
    /\ worker[i] = "running"
    /\ parse_input_args_passes(batch[i], args_ok[i])
    /\ worker' = [worker EXCEPT ![i] = "wrote"]
    /\ status' = [status EXCEPT ![i] = error_status]
    /\ content' = [content EXCEPT ![i] = ToolErrorContent]
    /\ late' = NowLate(i)
    /\ UNCHANGED <<otherVars, args_ok, batch, show_live, pc, group, seqPos, handler, interrupted,
                   nInterrupts, task, is_running, is_completed,
                   cancelled, timedOut, messages, snapshot, doneOrder>>

\* Tool.invoke returns.
WorkerReturn(i) ==
    /\ worker[i] = "wrote"
    /\ worker' = [worker EXCEPT ![i] = "returned"]
    /\ UNCHANGED <<otherVars, args_ok, batch, show_live, pc, group, seqPos, handler, interrupted,
                   nInterrupts, task, status, content, is_running, is_completed,
                   cancelled, timedOut, late, messages, snapshot, doneOrder>>

\* Tool.invoke raises (parse_input_args on invalid arguments, or the logic).
WorkerRaise(i) ==
    /\ worker[i] = "running"
    /\ worker' = [worker EXCEPT ![i] = "raised"]
    /\ UNCHANGED <<otherVars, args_ok, batch, show_live, pc, group, seqPos, handler, interrupted,
                   nInterrupts, task, status, content, is_running, is_completed,
                   cancelled, timedOut, late, messages, snapshot, doneOrder>>

Next ==
    \/ HandleUnknown
    \/ HandleEmpty
    \/ Handle
    \/ LiveUpdate
    \/ LiveExit
    \/ GroupFinally
    \/ Interrupt
    \/ \E i \in Idx : TaskStart(i)
    \/ \E i \in Idx : TaskReturn(i)
    \/ \E i \in Idx : TaskRaise(i)
    \/ \E i \in Idx : TaskTimeout(i)
    \/ \E i \in Idx : TaskTimeoutExit(i)
    \/ \E i \in Idx : TaskCancel(i)
    \/ \E i \in Idx : TaskCancelExit(i)
    \/ \E i \in Idx : WorkerBegin(i)
    \/ \E i \in Idx : WorkerSetContent(i)
    \/ \E i \in Idx : WorkerSetError(i)
    \/ \E i \in Idx : WorkerReturn(i)
    \/ \E i \in Idx : WorkerRaise(i)

Spec == Init /\ [][Next]_vars

\* What the scheduling guarantees: the event loop runs every callback that is
\* ready (the dispatcher's and the tasks' steps), a deadline elapses in finite
\* time, and the executor starts a submitted work item.  Nothing makes the
\* tool logic itself write, return or raise: Tool.invoke may block for ever.
\* Nothing makes an interrupt arrive.
Fairness ==
    /\ WF_vars(HandleUnknown) /\ WF_vars(HandleEmpty) /\ WF_vars(Handle)
    /\ WF_vars(LiveUpdate) /\ WF_vars(LiveExit) /\ WF_vars(GroupFinally)
    /\ \A i \in 1 .. MaxBatch :
          /\ WF_vars(i \in Idx /\ TaskStart(i))
          /\ WF_vars(i \in Idx /\ TaskReturn(i))
          /\ WF_vars(i \in Idx /\ TaskRaise(i))
          /\ WF_vars(i \in Idx /\ TaskTimeout(i))
          /\ WF_vars(i \in Idx /\ TaskTimeoutExit(i))
          /\ WF_vars(i \in Idx /\ TaskCancel(i))
          /\ WF_vars(i \in Idx /\ TaskCancelExit(i))
          /\ WF_vars(i \in Idx /\ WorkerBegin(i))

FairSpec == Init /\ [][Next]_vars /\ Fairness

ArgsSpec == ArgsInit /\ [][Next]_vars

\* ------------------------------------------------------- the schema export
\* no batch is being handled
HandlerIdle ==
    /\ batch = <<>>
    /\ show_live = FALSE
    /\ args_ok = <<>>
    /\ Constructed

\* Any Tool class, nothing exported yet.
SchemaInit ==
    /\ HandlerIdle
    /\ tool \in Tools
    /\ parameters = NotComputed
    /\ reresolved = NotComputed
    /\ openai = NotComputed
    /\ anthropic = NotComputed
    /\ ConfigIdle
    /\ ToolsIdle

\* a call of tool.get_parameters()
GetParameters ==
    /\ parameters = NotComputed
    /\ parameters' = get_parameters(tool)
    /\ UNCHANGED <<handlerVars, toolVars, configVars, tool, reresolved, openai, anthropic>>

\* the resolved schema of an Input model is resolved once more
ResolveAgain ==
    /\ tool.kind = "Input"
    /\ parameters \notin {NotComputed, RecursionError}
    /\ reresolved = NotComputed
    /\ reresolved' = resolve_schema_refs(parameters)
    /\ UNCHANGED <<handlerVars, toolVars, configVars, tool, parameters, openai, anthropic>>

\* a call of tool.openai_schema()
ExportOpenAI ==
    /\ openai = NotComputed
    /\ openai' = openai_schema(tool)
    /\ UNCHANGED <<handlerVars, toolVars, configVars, tool, parameters, reresolved, anthropic>>

\* a call of tool.anthropic_schema()
ExportAnthropic ==
    /\ anthropic = NotComputed
    /\ anthropic' = anthropic_schema(tool)
    /\ UNCHANGED <<handlerVars, toolVars, configVars, tool, parameters, reresolved, openai>>

SchemaNext ==
    \/ GetParameters
    \/ ResolveAgain
    \/ ExportOpenAI
    \/ ExportAnthropic

SchemaSpec == SchemaInit /\ [][SchemaNext]_vars

\* ------------------------------------------------------- the config manager
\* ConfigManager.setup with any command line, environment and config file.
ConfigInit ==
    /\ HandlerIdle
    /\ SchemaIdle
    /\ ToolsIdle
    /\ \E file \in ConfigData, env \in Environments, args \in ConfigData :
          sources = setup(file, env, args)
    /\ merged_config = EmptyDict
    /\ next_source = 1
    /\ final_model = NotBuilt

\* _merge_config_models: the loop body for the next source
MergeSource ==
    /\ next_source <= Len(sources)
    /\ merged_config' = merge_source(merged_config, sources[next_source])
    /\ next_source' = next_source + 1
    /\ UNCHANGED <<handlerVars, toolVars, schemaVars, sources, final_model>>

\* _merge_config_models: the final model, built from merged_config
BuildFinalModel ==
    /\ next_source > Len(sources)
    /\ final_model = NotBuilt
    /\ final_model' = merged_config
    /\ UNCHANGED <<handlerVars, toolVars, schemaVars, sources, merged_config, next_source>>

ConfigNext ==
    \/ MergeSource
    \/ BuildFinalModel

ConfigSpec == ConfigInit /\ [][ConfigNext]_vars

\* ------------------------------------- handle's own task cancelled from outside
\* Task.cancel() on the task that runs handle, called by another callback of
\* the event loop after the group's tasks have taken their first step, while
\* handle is suspended.  In the live loop the CancelledError will be raised
\* out of asyncio.sleep.  At `await asyncio.gather(...)` / `await task` the
\* cancellation is passed on to every task of the group that is not done
\* (Task.cancel of asyncio, which writes no status and no completed flag), and
\* handle is resumed with the CancelledError once they are all done.
CancelHandle ==
    /\ pc \in {"live", "gather"}
    /\ ~LoopBlocked
    /\ \A i \in Range(group) : task[i] # "pending"
    /\ IF pc = "live"
          THEN /\ pc' = "live_cancelled"
               /\ UNCHANGED cancelled
          ELSE /\ pc' = "gather_cancelled"
               /\ cancelled' = cancelled \cup {i \in Range(group) : ~TaskDone(i)}
    /\ UNCHANGED <<otherVars, args_ok, batch, show_live, group, seqPos, handler, interrupted,
                   nInterrupts, task, worker, status, content, is_running,
                   is_completed, timedOut, late, messages, snapshot, doneOrder>>

\* The CancelledError reaches handle_*_tool_call at its await and the
\* finally block runs: remove the handler, append the results as they are;
\* the CancelledError goes on to handle's caller.
CancelledFinally ==
    /\ \/ pc = "live_cancelled"
       \/ pc = "gather_cancelled" /\ gather_done(group)
    /\ ~LoopBlocked
    /\ messages' = messages \o appended_results(group)
    /\ handler' = remove_signal_handler(handler)
    /\ pc' = "aborted"
    /\ UNCHANGED <<otherVars, args_ok, batch, show_live, group, seqPos, interrupted,
                   nInterrupts, task, worker, status, content, is_running,
                   is_completed, cancelled, timedOut, late, snapshot, doneOrder>>

CancelNext ==
    \/ Next
    \/ CancelHandle
    \/ CancelledFinally

CancelSpec == Init /\ [][CancelNext]_vars

\* ---------------------------------------------------------------- Edit calls
\* A file that may not exist, at a path that was never read or was cached by
\* a read of the file as it is.
EditInit ==
    /\ HandlerIdle
    /\ SchemaIdle
    /\ ConfigIdle
    /\ TodoIdle
    /\ target_file \in {NoFile} \cup {File(b) : b \in Texts(MaxFileLen)}
    /\ FILE_CACHE \in {EmptyDict} \cup
          (IF target_file.exists
              THEN {cache_file_content(EmptyDict, read_text(target_file.bytes))}
              ELSE {})
    /\ backup = NoFile
    /\ edit = NoEdit
    /\ hist = NoHist

\* EditTool.invoke up to its try block: the arguments, the existence and the
\* cache validation, the checks on old_string and new_string.
EditBegin ==
    /\ edit.pc = "idle"
    /\ hist.calls < MaxEdits
    /\ \E old \in OldStrings, new \in NewStrings, all \in BOOLEAN :
          LET error_msg == validate(target_file, FILE_CACHE, old, new) IN
          edit' = [pc |-> IF error_msg = "" THEN "validated" ELSE "idle",
                   old_string |-> old, new_string |-> new, replace_all |-> all,
                   content |-> <<>>,
                   result |-> IF error_msg = "" THEN "running" ELSE error_msg]
    /\ hist' = [hist EXCEPT !.calls = @ + 1, !.start_file = target_file,
                            !.start_cache = FILE_CACHE, !.disturbed = FALSE,
                            !.restore_failed = FALSE]
    /\ UNCHANGED <<handlerVars, schemaVars, configVars, todoVars,
                   target_file, FILE_CACHE, backup>>

\* read_file_content and the checks on the occurrences of old_string.
EditRead ==
    /\ edit.pc = "validated"
    /\ LET text == read_text(target_file.bytes)
           error_msg == check_occurrences(text, edit.old_string, edit.replace_all)
       IN  edit' = IF error_msg = ""
                      THEN [edit EXCEPT !.pc = "read", !.content = text]
                      ELSE [edit EXCEPT !.pc = "idle", !.result = error_msg]
    /\ UNCHANGED <<handlerVars, schemaVars, configVars, todoVars,
                   target_file, FILE_CACHE, backup, hist>>

\* create_backup: shutil.copy2 to `<path>.backup`; when it fails the except
\* branch has no backup to restore and reports the failure.
EditBackup ==
    /\ edit.pc = "read"
    /\ \E copied \in BOOLEAN :
          IF copied
             THEN /\ backup' = target_file
                  /\ edit' = [edit EXCEPT !.pc = "backed_up"]
             ELSE /\ backup' = backup
                  /\ edit' = [edit EXCEPT !.pc = "idle", !.content = <<>>,
                                          !.result = "Failed to edit file"]
    /\ UNCHANGED <<handlerVars, schemaVars, configVars, todoVars,
                   target_file, FILE_CACHE, hist>>

\* The replacement and write_file_content, which writes the new content or
\* fails before or after open(path, 'w') has emptied the file.  After a
\* write: cache_file_content, the result, cleanup_backup.  After a failure:
\* restore_backup, tried once more by the except branch when it raises.
EditWrite ==
    /\ edit.pc = "backed_up"
    /\ LET new_content == replace_string_in_content(edit.content, edit.old_string,
                                                    edit.new_string, edit.replace_all)
       IN  \E written \in {"all", "nothing", "truncated"}, moved, moved_again \in BOOLEAN :
              IF written = "all"
                 THEN /\ target_file' = File(write_text(new_content))
                      /\ FILE_CACHE' = cache_file_content(FILE_CACHE, new_content)
                      /\ backup' = NoFile
                      /\ edit' = [edit EXCEPT !.pc = "idle", !.content = <<>>,
                                              !.result = "success"]
                      /\ hist' = [hist EXCEPT !.stale = FALSE,
                                              !.after = read_text(write_text(new_content))]
                 ELSE LET left == IF written = "truncated" THEN File(<<>>) ELSE target_file
                          restored == moved \/ moved_again
                      IN  /\ target_file' = restore_backup(left, backup, restored)
                          /\ backup' = IF restored THEN NoFile ELSE backup
                          /\ FILE_CACHE' = FILE_CACHE
                          /\ edit' = [edit EXCEPT
                                        !.pc = "idle", !.content = <<>>,
                                        !.result = IF moved THEN "Failed to write file"
                                                            ELSE "Failed to edit file"]
                          /\ hist' = [hist EXCEPT !.restore_failed = ~restored]
    /\ UNCHANGED <<handlerVars, schemaVars, configVars, todoVars>>

\* The user or a linter rewrites the file: a read returns another content.
ExternalModify ==
    /\ hist.externals < MaxExternal
    /\ target_file.exists
    /\ \E b \in ExternalTexts :
          /\ read_text(b) # read_text(target_file.bytes)
          /\ target_file' = File(b)
    /\ hist' = [hist EXCEPT !.externals = @ + 1, !.disturbed = TRUE, !.stale = TRUE]
    /\ UNCHANGED <<handlerVars, schemaVars, configVars, todoVars,
                   FILE_CACHE, backup, edit>>

EditNext ==
    \/ EditBegin
    \/ EditRead
    \/ EditBackup
    \/ EditWrite
    \/ ExternalModify

EditSpec == EditInit /\ [][EditNext]_vars

\* ----------------------------------------------------------- TodoWrite calls
\* A session with any todo list, and two TodoWrite calls of one parallel
\* group, each in its own worker thread.
TodoInit ==
    /\ HandlerIdle
    /\ SchemaIdle
    /\ ConfigIdle
    /\ EditIdle
    /\ todo_list \in TodoLists
    /\ todo_calls = [c \in TodoCalls |-> NoTodoCall]

\* TodoWriteTool.invoke up to old_todo_dict: the submitted list is parsed and
\* the session's list is read.
TodoWriteRead(c) ==
    /\ todo_calls[c].pc = "new"
    /\ \E submitted \in TodoLists :
          todo_calls' = [todo_calls EXCEPT ![c] =
                            [@ EXCEPT !.pc = "read", !.todo_list = submitted,
                                      !.old_todo_list = todo_list]]
    /\ UNCHANGED <<handlerVars, schemaVars, configVars, editVars, todo_list>>

\* `session.todo_list = args.todo_list`, then the loop that builds
\* new_completed_todos.  `replaced` keeps the list the assignment overwrote.
TodoWriteAssign(c) ==
    /\ todo_calls[c].pc = "read"
    /\ todo_list' = todo_calls[c].todo_list
    /\ todo_calls' = [todo_calls EXCEPT ![c] =
                         [@ EXCEPT !.pc = "done",
                                   !.replaced = todo_list,
                                   !.new_completed_todos =
                                       new_completed_todos(todo_calls[c].old_todo_list,
                                                           todo_calls[c].todo_list)]]
    /\ UNCHANGED <<handlerVars, schemaVars, configVars, editVars>>

TodoNext ==
    \/ \E c \in TodoCalls : TodoWriteRead(c)
    \/ \E c \in TodoCalls : TodoWriteAssign(c)

TodoSpec == TodoInit /\ [][TodoNext]_vars


\* ================================================================== claims
Finished == pc \in {"returned", "aborted", "crashed"}

Appended(i) == \E k \in 1 .. Len(messages) : messages[k].id = i

C2_UnknownToolIsAnErrorResult ==
    (Finished /\ nInterrupts = 0 /\ \E i \in Idx : batch[i] = UnknownName) =>
        /\ pc = "returned"
        /\ \A i \in Idx :
              /\ Appended(i)
              /\ batch[i] = UnknownName =>
                    /\ task[i] = "none"
                    /\ \A k \in 1 .. Len(messages) :
                          messages[k].id = i =>
                              /\ messages[k].status = "error"
                              /\ messages[k].content.tool = UnknownName

\* C3: without an interrupt handle returns normally for every batch; the
\* only way it raises is an interrupt.
C3_OnlyAnInterruptRaises ==
    pc \in {"aborted", "crashed"} => nInterrupts > 0

\* C4: an execution whose deadline elapsed before its work completed and
\* before any cancellation ends with the status TimedOut, distinct from
\* Canceled, and a content naming the tool and the timeout.
C4_DeadlineYieldsTimedOut ==
    \A i \in timedOut :
        TaskDone(i) =>
            /\ status[i] = "timed_out"
            /\ status[i] # "canceled"
            /\ content[i] = TimeoutContent(batch[i])

\* C5: once the status of a result is terminal, no step of any actor changes
\* it to a different value.
C5_StatusMonotonic ==
    [][\A i \in Idx : status[i] \in Terminal => status'[i] = status[i]]_vars

\* C6: the result a cancelled execution's work writes after the cancellation
\* is discarded: the status stays canceled and the content is not the late one.
C6_LateResultDiscardedAfterCancel ==
    \A i \in cancelled \cap late :
        TaskDone(i) =>
            /\ status[i] = "canceled"
            /\ content[i] \notin {WorkContent, ToolErrorContent}

\* C7: when the work completes after the deadline, the appended result holds
\* the status and the timeout message written at the deadline.
C7_TimeoutSurvivesLateOutcome ==
    \A k \in 1 .. Len(messages) :
        (messages[k].id \in timedOut /\ worker[messages[k].id] \in {"returned", "raised"}) =>
            /\ messages[k].status = timeout_status
            /\ messages[k].content = TimeoutContent(batch[messages[k].id])

\* C8: an interrupt delivered while a group is in flight leaves every
\* execution it cancelled with the status canceled, and every execution that
\* was already finished with the status it had.
C8_InterruptCancelsTheActiveGroup ==
    /\ [](\A i \in cancelled : TaskDone(i) => status[i] = "canceled")
    /\ [][\A i \in Idx :
            (TaskDone(i) /\ nInterrupts' > 0) => status'[i] = status[i]]_vars

\* C9: after an interrupt every sequential call that had not started has a
\* result with status canceled in the conversation.
C9_UnstartedCallsGetACanceledResult ==
    pc = "aborted" =>
        \A i \in Idx :
            task[i] = "none" =>
                \E k \in 1 .. Len(messages) :
                    messages[k].id = i /\ messages[k].status = "canceled"

\* C10: once an interrupt has been delivered to a batch, no execution of the
\* batch that has not started is started.
C10_NoStartAfterInterrupt ==
    [][nInterrupts > 0 =>
          \A i \in Idx : task[i] = "none" => task'[i] = "none"]_vars

\* The parallel group was interrupted and handle raised while a sequential
\* call was still waiting for its turn.
C10_Witness ==
    /\ pc = "aborted"
    /\ nInterrupts > 0
    /\ \E i \in Idx : task[i] = "none" /\ ~is_parallelable(batch[i])
    /\ \E i \in Idx : task[i] = "cancelled"

\* C11: an interrupt delivered while a group is in flight makes handle raise
\* the cancellation instead of returning, and handle raises it only once
\* every execution of the active group is finished with a terminal status
\* and the group's results are appended.
C11_AbortAfterTheGroupIsTerminal ==
    /\ (Finished /\ nInterrupts > 0) => pc = "aborted"
    /\ pc = "aborted" =>
          /\ nInterrupts > 0
          /\ \A i \in Range(group) :
                TaskDone(i) /\ status[i] \in Terminal /\ Appended(i)

\* Both executions of a parallel group were cancelled by the interrupt and
\* handle has raised.
C11_Witness ==
    /\ pc = "aborted"
    /\ Len(group) = 2
    /\ cancelled = {1, 2}
    /\ Len(messages) = 2

\* The result of a finished execution that was neither cancelled nor timed
\* out is the one its own work produced.
OwnOutcome(i) ==
    (TaskDone(i) /\ i \notin cancelled \cup timedOut) =>
        \/ worker[i] = "raised" /\ status[i] = "error" /\ content[i] = TraceContent
        \/ worker[i] = "returned" /\ status[i] = "success" /\ content[i] = WorkContent
        \/ worker[i] = "returned" /\ status[i] = "error" /\ content[i] = ToolErrorContent

\* C12: in the parallel group, when one execution has ended in error or has
\* timed out, every sibling still runs to its own terminal state, with the
\* result its own work produces.
C12_FailureIsolation ==
    /\ [](\A i \in Idx : OwnOutcome(i))
    /\ \A i, j \in 1 .. MaxBatch :
          [] ((/\ i # j
               /\ i \in Range(group) /\ j \in Range(group)
               /\ seqPos = 0
               /\ (j \in timedOut \/ status[j] = "error"))
              => <> (i \in Idx /\ TaskDone(i)))

SeqCalls == IF \A i \in Idx : batch[i] \in DOMAIN tool_dict
               THEN non_parallelable_tool_calls(batch) ELSE <<>>

ParCalls == IF \A i \in Idx : batch[i] \in DOMAIN tool_dict
               THEN parallelable_tool_calls(batch) ELSE <<>>

Started(i) == task[i] # "none"

\* C13: the sequential group runs one at a time in original order: at most
\* one sequential execution is started and unfinished, and the (k+1)-th is
\* started only after the k-th is finished with a terminal status and its
\* work has stopped running in the worker thread.
C13_SequentialOneAtATime ==
    /\ Cardinality({i \in Range(SeqCalls) : Started(i) /\ ~TaskDone(i)}) <= 1
    /\ \A k \in 1 .. Len(SeqCalls) - 1 :
          Started(SeqCalls[k + 1]) =>
              /\ TaskDone(SeqCalls[k])
              /\ status[SeqCalls[k]] \in Terminal
              /\ worker[SeqCalls[k]] \in {"returned", "raised", "never_ran"}

\* The second of two sequential calls is running after the first one timed
\* out while its work was still writing.
C13_Witness ==
    /\ batch = <<"Serial", "Serial">>
    /\ 1 \in timedOut /\ 1 \in late
    /\ task[2] = "waiting"
    /\ worker[2] = "running"

\* C14: no sequential call is started while a parallel execution is
\* unfinished: the parallel group's results are appended only once every
\* member is finished, and only then does the first sequential call start.
C14_ParallelBeforeSequential ==
    /\ \A j \in Range(ParCalls) :
          Appended(j) => \A i \in Range(ParCalls) : TaskDone(i) /\ status[i] \in Terminal
    /\ \A s \in Range(SeqCalls) :
          Started(s) => \A j \in Range(ParCalls) : TaskDone(j) /\ Appended(j)

\* The sequential call of a mixed batch is running; the parallel call before
\* it is finished and appended.
C14_Witness ==
    /\ batch = <<"Serial", "Edit">>
    /\ task[1] = "waiting"
    /\ task[2] = "done"
    /\ Len(messages) = 1 /\ messages[1].id = 2

\* C15: when handle returns or raises, every submitted call has exactly one
\* result in the conversation.
C15_ExactlyOneResultPerCall ==
    pc \in {"returned", "aborted"} =>
        \A i \in Idx :
            Cardinality({k \in 1 .. Len(messages) : messages[k].id = i}) = 1

\* C16: once handle has returned or raised, no SIGINT handler of the batch is
\* installed, so a later interrupt cancels nothing of the finished batch.
C16_HandlerScopedToTheBatch ==
    Finished => (~handler /\ ~ENABLED Interrupt)

\* handle has raised after an interrupt that its installed handler delivered.
C16_Witness ==
    /\ pc = "aborted"
    /\ nInterrupts > 0
    /\ cancelled # {}
    /\ ~handler

\* C17: whenever an execution of the batch is started and unfinished, an
\* interrupt handler that cancels it is installed.
C17_InterruptAlwaysAvailable ==
    \A i \in Idx :
        (Started(i) /\ ~TaskDone(i)) => (handler /\ i \in Range(group))

\* EditTool.invoke validates against, and updates, the module-wide FILE_CACHE.
touches_file_cache(name) == name = "Edit"

\* The worker thread of execution i is inside Tool.invoke.
InInvoke(i) == worker[i] \in {"running", "wrote"}

\* C18: the file-content cache is single-writer-at-a-time: no two executions
\* of a tool that touches it are inside their tool logic at the same time.
C18_FileCacheSingleWriter ==
    Cardinality({i \in Idx : touches_file_cache(batch[i]) /\ InInvoke(i)}) <= 1

\* C19: while the work of one execution is running in its worker thread,
\* also after that execution has timed out or was cancelled, the event loop
\* keeps making progress: a sibling whose work has returned can be completed
\* and the live loop can take its next snapshot.
C19_BlockingWorkDoesNotStallTheLoop ==
    \A i \in Idx :
        InInvoke(i) =>
            /\ \A j \in Idx \ {i} :
                  (task[j] = "waiting" /\ j \notin cancelled /\ worker[j] = "returned")
                      => ENABLED TaskReturn(j)
            /\ pc = "live" => ENABLED (LiveUpdate \/ LiveExit)

\* C20: when the work returns before the deadline and without a cancellation,
\* the status becomes success exactly when the tool logic left it at its
\* initial value; the error status the tool logic set itself is preserved.
C20_SuccessUnlessToolSetStatus ==
    \A i \in Idx :
        (TaskDone(i) /\ i \notin cancelled \cup timedOut /\ worker[i] = "returned") =>
            \/ content[i] = WorkContent /\ status[i] = "success"
            \/ content[i] = ToolErrorContent /\ status[i] = "error"

\* Two executions have completed in time: one left the status alone, the
\* other reported an error through its result.
C20_Witness ==
    /\ batch = <<"Edit", "Edit">>
    /\ nInterrupts = 0 /\ timedOut = {}
    /\ task = <<"done", "done">>
    /\ worker = <<"returned", "returned">>
    /\ status = <<"success", "error">>

C22_InvalidArgumentsYieldAnError ==
    /\ \A i \in Idx :
          (/\ batch[i] \in DOMAIN tool_dict
           /\ ~args_ok[i]
           /\ TaskDone(i)
           /\ i \notin cancelled \cup timedOut) => status[i] = "error"
    /\ (nInterrupts = 0 /\ \A i \in Idx : batch[i] \in DOMAIN tool_dict) =>
          pc \notin {"aborted", "crashed"}

\* The positions of S in ascending order.
Ascending(S) ==
    CHOOSE q \in [1 .. Cardinality(S) -> S] :
        \A a, b \in 1 .. Cardinality(S) : a < b => q[a] < q[b]

\* C23: the parallel group is the parallelizable calls and each single call a
\* non-parallelizable one, both in the batch's relative order; the appended
\* results are always a prefix of the parallelizable calls in submission
\* order followed by the non-parallelizable calls in original order, and the
\* whole of it when handle returns.
C23_PartitionAndAppendOrder ==
    LET registered == \A i \in Idx : batch[i] \in DOMAIN tool_dict
        par == Ascending({i \in Idx : registered /\ tool_dict[batch[i]].parallelable})
        sq == Ascending({i \in Idx : registered /\ ~tool_dict[batch[i]].parallelable})
        expected == par \o sq
        ids == [k \in 1 .. Len(messages) |-> messages[k].id]
    IN  /\ (group # <<>> /\ seqPos = 0) => group = par
        /\ seqPos > 0 => (seqPos <= Len(sq) /\ group = <<sq[seqPos]>>)
        /\ Len(ids) <= Len(expected)
        /\ ids = SubSeq(expected, 1, Len(ids))
        /\ pc = "returned" => ids = expected

\* handle has returned from two sequential calls, appended in original order.
C23_Witness ==
    /\ pc = "returned"
    /\ batch = <<"Serial", "Serial">>
    /\ doneOrder = <<1, 2>>
    /\ Len(messages) = 2
    /\ messages[1].id = 1 /\ messages[2].id = 2

\* The current result of every execution of g, in the order of g.
CurrentViews(g) ==
    [k \in 1 .. Len(g) |->
        [id |-> g[k], status |-> status[g[k]], content |-> content[g[k]]]]

\* C28: a step of the live loop leaves a snapshot holding the current result
\* of every execution of the active group in submission order; it changes no
\* execution's status, result, task or worker and appends nothing; and once
\* no execution of the group is running or an interrupt was delivered, the
\* next step of the loop is its exit, not another round.
C28_SnapshotIsReadOnly ==
    [][pc = "live" /\ <<snapshot, pc>>' # <<snapshot, pc>> =>
          /\ snapshot' = CurrentViews(group)
          /\ \A a, b \in 1 .. Len(snapshot') : a < b => snapshot'[a].id < snapshot'[b].id
          /\ UNCHANGED <<status, content, task, worker, is_running, is_completed,
                         cancelled, timedOut, messages, group, interrupted>>
          /\ (interrupted \/ \A i \in Range(group) : ~(is_running[i] /\ ~is_completed[i]))
                => pc' = "gather"
          /\ ~(interrupted \/ \A i \in Range(group) : ~(is_running[i] /\ ~is_completed[i]))
                => pc' = "live"]_vars

\* The live loop is showing a parallel group of two: the first execution has
\* succeeded, the second is still processing.
C28_Witness ==
    /\ pc = "live"
    /\ Len(snapshot) = 2
    /\ snapshot[1].status = "success" /\ snapshot[1].content = WorkContent
    /\ snapshot[2].status = "processing"
    /\ task[2] = "waiting"

\* C30: every started execution eventually reaches a terminal state and
\* handle eventually returns or raises, also when the work of a tool never
\* completes: the timeout or the cancellation ends the wait.
C30_EveryExecutionTerminates ==
    /\ <> Finished
    /\ \A i \in 1 .. MaxBatch :
          [] ((i \in Idx /\ Started(i)) =>
                 <> (i \in Idx /\ TaskDone(i) /\ status[i] \in Terminal))

\* The value holds no '$ref' at any depth.
RECURSIVE NoRef(_)
NoRef(obj) ==
    /\ obj.t # "ref"
    /\ obj.t \in {"dict", "list"} => NoRef(obj.kid)

\* The reference the value holds, Leaf when it holds none.
RECURSIVE RefIn(_)
RefIn(obj) ==
    IF obj.t = "ref" THEN obj
    ELSE IF obj.t \in {"dict", "list"} THEN RefIn(obj.kid)
    ELSE Leaf

\* The reference names a shared definition of the schema.
NamesADefinition(ref, schema) ==
    ref.prefix = "#/$defs/" /\ ref.name \in DOMAIN schema.defs

\* Every reference of the schema, in its properties and in its shared
\* definitions, names a shared definition of the schema.
AllRefsNameADefinition(schema) ==
    \A obj \in {schema.properties} \cup {schema.defs[n] : n \in DOMAIN schema.defs} :
        RefIn(obj) # Leaf => NamesADefinition(RefIn(obj), schema)

\* What following the references from obj for k definitions arrives at:
\* Leaf when the chain has ended before.
RECURSIVE Follow(_, _, _)
Follow(obj, schema, k) ==
    LET ref == RefIn(obj) IN
    IF ref = Leaf \/ ~NamesADefinition(ref, schema) THEN Leaf
    ELSE IF k = 0 THEN ref
    ELSE Follow(schema.defs[ref.name], schema, k - 1)

\* The references of the properties run into a cycle of definitions.
RefersToItself(schema) == Follow(schema.properties, schema, Cardinality(DefNames)) # Leaf

C25_ResolutionIsIdempotent ==
    reresolved # NotComputed => reresolved = parameters

\* A schema with a chain of two definitions and one with a reference that
\* stays unresolved have both been resolved twice.
C25_Witness ==
    /\ reresolved # NotComputed
    /\ tool.schema.properties # parameters.properties
    /\ RefIn(tool.schema.properties) = Ref("#/$defs/", "A")
    /\ "A" \in DOMAIN tool.schema.defs
    /\ RefIn(tool.schema.defs["A"]) = Ref("#/$defs/", "B")
    /\ "B" \notin DOMAIN tool.schema.defs
    /\ RefIn(reresolved.properties) = Ref("#/$defs/", "B")

\* C26: a schema whose properties hold a reference that names no shared
\* definition, or does not point into '$defs', is rejected when it is
\* resolved: the resolver returns no schema, least of all one that still
\* holds the reference.
C26_UnresolvableRefIsRejected ==
    (tool.kind = "Input" /\ parameters # NotComputed
        /\ RefIn(tool.schema.properties) # Leaf
        /\ ~NamesADefinition(RefIn(tool.schema.properties), tool.schema)) =>
        /\ parameters.type # "object"
        /\ parameters.type = "object" => NoRef(parameters.properties)

\* C27: the two exported shapes carry what get_parameters returns, unchanged,
\* under the tool's name and description; when get_parameters raises, both
\* exports raise.
C27_ExportsCarryTheResolvedSchema ==
    (parameters # NotComputed /\ openai # NotComputed /\ anthropic # NotComputed) =>
        IF parameters = RecursionError
           THEN openai = RecursionError /\ anthropic = RecursionError
           ELSE /\ openai.type = "function"
                /\ openai.function.parameters = parameters
                /\ anthropic.input_schema = parameters
                /\ openai.function.name = tool.name /\ anthropic.name = tool.name
                /\ openai.function.description = tool.desc
                /\ anthropic.description = tool.desc

\* Both shapes of a tool whose Input schema held a reference are exported.
C27_Witness ==
    /\ tool.kind = "Input"
    /\ RefIn(tool.schema.properties) = Ref("#/$defs/", "A")
    /\ "A" \in DOMAIN tool.schema.defs
    /\ parameters \notin {NotComputed, RecursionError}
    /\ openai \notin {NotComputed, RecursionError}
    /\ anthropic \notin {NotComputed, RecursionError}
    /\ NoRef(openai.function.parameters.properties)

\* the priority the documentation gives the sources, highest number first
Priority == [src \in {"default", "config", "env", "cli"} |->
                IF src = "cli" THEN 4 ELSE IF src = "env" THEN 3
                ELSE IF src = "config" THEN 2 ELSE 1]

\* the sources whose model holds a value other than None for the key
Providers(k) ==
    {src \in DOMAIN Priority :
        \E i \in 1 .. Len(sources) :
            k \in DOMAIN sources[i] /\ sources[i][k].source = src
                /\ sources[i][k].value # None}

\* C29: for every key, the merged value and its recorded source are those of
\* the highest-priority source (cli > env > config > default) that provides
\* a value other than None, False, 0 and '' counting as provided; a key no
\* source provides is unset.
C29_HighestPrioritySourceWins ==
    final_model # NotBuilt =>
        \A k \in ConfigKeys :
            IF Providers(k) = {}
               THEN k \notin DOMAIN final_model
               ELSE LET best == CHOOSE src \in Providers(k) :
                                   \A o \in Providers(k) : Priority[o] <= Priority[src]
                    IN  /\ k \in DOMAIN final_model
                        /\ final_model[k].source = best
                        /\ \E i \in 1 .. Len(sources) :
                              k \in DOMAIN sources[i] /\ sources[i][k] = final_model[k]

\* The command line turns azure mode off over an environment that turns it
\* on, the environment's max_tokens 0 overrides the file's, and no source
\* gives an api key.
C29_Witness ==
    /\ final_model # NotBuilt
    /\ "model_azure" \in DOMAIN final_model
    /\ final_model["model_azure"] = ConfigValue("False", "cli")
    /\ "model_azure" \in DOMAIN sources[3] /\ sources[3]["model_azure"].value = "True"
    /\ "max_tokens" \in DOMAIN final_model
    /\ final_model["max_tokens"] = ConfigValue("0", "env")
    /\ "max_tokens" \in DOMAIN sources[2] /\ sources[2]["max_tokens"].value = "4096"
    /\ "api_key" \notin DOMAIN final_model

\* Some execution of the active group was cancelled or carries the status
\* canceled.
SomeExecutionCanceled ==
    \E i \in Range(group) : status[i] = "canceled" \/ i \in cancelled

CancelLeaves(i) ==
    /\ status'[i] = status[i]
    /\ content'[i] = content[i]
    /\ is_completed'[i] = is_completed[i]
    /\ is_running'[i] = is_running[i]

C34_RecursiveDefinitionsResolve ==
    (tool.kind = "Input" /\ parameters # NotComputed
        /\ AllRefsNameADefinition(tool.schema) /\ RefersToItself(tool.schema)) =>
        parameters.type = "object"

\* C31: every result in the conversation had a terminal status when it was
\* appended, on every way out of handle_parallel_tool_call and
\* handle_single_tool_call, the cancellation of handle's own task included.
C31_AppendedResultsAreTerminal ==
    \A k \in 1 .. Len(messages) : messages[k].status \in Terminal

\* The last Edit call has returned with an error.
EditFailed == edit.pc = "idle" /\ edit.result \notin {"none", "success"}

\* C35: when an Edit call has ended with an error, whichever check or step
\* failed, the file and the cache entry of its path are what they were when
\* the call began, as long as nobody else has modified the file since and
\* the backup could be moved back after a failed write.
C35_FailedEditLeavesFileAndCache ==
    (EditFailed /\ ~hist.disturbed /\ ~hist.restore_failed) =>
        /\ target_file = hist.start_file
        /\ FILE_CACHE = hist.start_cache

\* A second Edit of a file of two characters has failed in its write and the
\* file, restored from the backup, is as before, its backup gone.
C35_Witness ==
    /\ EditFailed
    /\ edit.result = "Failed to write file"
    /\ hist.calls = 2
    /\ ~hist.disturbed
    /\ Len(target_file.bytes) = 2
    /\ target_file = hist.start_file
    /\ backup = NoFile

\* The step begins an Edit call.
BeginsEdit == edit.pc = "idle" /\ hist'.calls = hist.calls + 1

\* C36: an Edit writes the file only when, at that moment, the hash of the
\* file's content equals the hash cached for the path; after a successful
\* Edit a following Edit of the file passes the cache validation without a
\* new read when nobody else has modified the file in between, and fails
\* with the 'modified externally' error, writing nothing, when somebody has.
C36_EditWritesOnlyAValidatedFile ==
    [][/\ (edit.pc = "backed_up" /\ edit'.result = "success") =>
              validate_file_cache(target_file, FILE_CACHE) = ""
       /\ (BeginsEdit /\ edit.result = "success" /\ ~hist.stale) =>
              edit'.result \notin {FILE_NOT_READ_ERROR, FILE_MODIFIED_ERROR}
       /\ (BeginsEdit /\ edit.result = "success" /\ hist.stale
              /\ read_text(target_file.bytes) # hist.after) =>
              /\ edit'.result = FILE_MODIFIED_ERROR
              /\ edit'.pc = "idle"]_vars

\* The ids of the todos of a list, and of those with a status in S.
Ids(l) == {l[i].id : i \in DOMAIN l}
IdsWithStatus(l, S) == {l[i].id : i \in {j \in DOMAIN l : l[j].status \in S}}

====
